---------------------------- MODULE Spec2Model ----------------------------
(***************************************************************************)
(* Incremental, checkpointed export of remote tables to NDJSON files.      *)
(*                                                                         *)
(* The model follows the export script statement by statement: main loads  *)
(* the checkpoint map, exportTable pages through each table of TABLES with *)
(* tursoExecute, and main saves the map once at the end.  A run is one     *)
(* process; the checkpoint file, the output files and the remote rows      *)
(* survive it, everything else is re-created by the next run.              *)
(*                                                                         *)
(* A remote row is the tuple <<id, ts, cursor_ts>>: the selected columns   *)
(* (an id and the time column) followed by the cursor expression, as the   *)
(* SELECT of buildSelectSql returns them.  Watermarks are the integers     *)
(* 1..MaxW in place of ISO time strings; DEFAULT_CURSOR is below them all. *)
(* The checkpoint map is a function on the table names that have an entry. *)
(*                                                                         *)
(* The variables under "history" record what a run did (the files and the  *)
(* checkpoint it started from, the pages it fetched, the rows ever         *)
(* written); no action reads them to decide what the program does.         *)
(*                                                                         *)
(* Spec and SpecRecording are the export script against a remote that      *)
(* evaluates the query it is sent.  SpecUnchecked takes the rows of the    *)
(* response as they come, SpecLost damages the checkpoint file between two *)
(* runs, SpecCoerce puts one row through the column mapping, and SpecPage  *)
(* is the query page of app.js (its second listing, with isReady).         *)
(***************************************************************************)
EXTENDS Integers, Sequences, FiniteSets, TLC

\* ------------------------------------------------------------------ bounds
\* Most rows the remote database ever holds, all tables together.
MaxRows == 3
\* Watermark values are 1..MaxW.
MaxW == 2
\* BATCH_SIZE and MAX_PAGES come from the environment of each run: the
\* model draws them from 1..MaxBatchSize and 1..MaxPagesCfg.
MaxBatchSize == 2
MaxPagesCfg == 2
\* Longest string a cell of the mapped row holds.
MaxStrLen == 2
\* Snapshot loads the page is asked for, and queries it is asked to run.
MaxLoads == 1
MaxQueries == 2

\* ------------------------------------------------------- program constants
DEFAULT_CURSOR == 0

TABLES == <<"analytics_events", "level_analytics">>

TableNames == {TABLES[i] : i \in 1..Len(TABLES)}

Watermarks == 1..MaxW

VARIABLES
    \* the remote database: per table, the watermark of each row, in
    \* insertion (rowid) order; row i has id i
    source,
    \* the checkpoint file at CURSOR_PATH: [exists, parses, json], parses
    \* false when JSON.parse rejects its text
    cursorFile,
    \* the output files <OUTPUT_DIR>/<table>.ndjson: [exists, lines]
    files,
    \* the running process
    pc, BATCH_SIZE, MAX_PAGES, cursors, tableIdx, cursor, wroteAny, page, rows,
    \* history, read by the properties only
    cursorFileAtStart, filesAtStart, fetched, fetches, saves, zeroRow,
    drained, stable,
    \* history across runs, kept only when recording is on: the ids of the
    \* rows ever written per table, and the tables no row was inserted
    \* into since the run began
    recording, emitted, unchanged,
    \* one row through the mapping of exportTable: the cells as the remote
    \* returned them, and the record written for them (none yet: <<>>)
    rawRow, mapped,
    \* the query page: the engine, its status line, the registered files
    \* and the views, the snapshot loads and the query in progress
    initPc, db, conn, isReady, status, registered, views, loads, running, queries

coercion == <<rawRow, mapped>>

browser == <<initPc, db, conn, isReady, status, registered, views, loads,
             running, queries>>

\* What a run of the export script never touches.
outside == <<recording, coercion, browser>>

exporter == <<source, cursorFile, files, pc, BATCH_SIZE, MAX_PAGES, cursors,
              tableIdx, cursor, wroteAny, page, rows, cursorFileAtStart,
              filesAtStart, fetched, fetches, saves, zeroRow, drained, stable,
              emitted, unchanged>>

vars == <<exporter, outside>>

remote == <<source>>
disk == <<cursorFile, files>>
env == <<BATCH_SIZE, MAX_PAGES>>
locals == <<cursor, wroteAny, page, rows>>
perTable == <<fetched, fetches>>
history == <<cursorFileAtStart, filesAtStart, perTable, saves, zeroRow,
             drained, stable, outside, emitted, unchanged>>

\* ----------------------------------------------------------------- helpers
EmptyMap == [k \in {} |-> 0]

NoFile == [exists |-> FALSE, lines |-> <<>>]

Last(s) == s[Len(s)]

\* A cell JavaScript takes for false: null, undefined or ''.  The model
\* writes it -1, below DEFAULT_CURSOR as '' sorts below every time string.
Falsy(v) == v = -1

\* Faulty variant: the start watermark ignores the checkpoint map.
CursorIgnoresMap(c, key) == DEFAULT_CURSOR

\* cursors[cursorKey] || DEFAULT_CURSOR
CursorOrDefault(c, key) ==
    IF key \in DOMAIN c /\ ~Falsy(c[key]) THEN c[key] ELSE DEFAULT_CURSOR

\* Faulty variant: the map is replaced by one holding this table's entry only.
SetCursorAlone(c, key, v) == [k \in {key} |-> v]

\* cursors[cursorKey] = cursor
SetCursor(c, key, v) ==
    [k \in DOMAIN c \cup {key} |-> IF k = key THEN v ELSE c[k]]

\* Faulty variant: what can be read of a damaged file is used.
ParsedLeniently(f) == f.json

\* try { JSON.parse(readFileSync(CURSOR_PATH)) } catch { return {} }
ParsedOrEmpty(f) == IF f.exists /\ f.parses THEN f.json ELSE EmptyMap

loadCursors == ParsedOrEmpty(cursorFile)

\* The rows of a table as the SELECT list returns them.
TableRows(t) == [i \in 1..Len(source[t]) |-> <<i, source[t][i], source[t][i]>>]

\* Faulty variant: WHERE cursorExpr >= ?
RECURSIVE WhereAtLeast(_, _)
WhereAtLeast(rs, c) ==
    IF rs = <<>> THEN <<>>
    ELSE IF rs[1][3] >= c THEN <<rs[1]>> \o WhereAtLeast(Tail(rs), c)
         ELSE WhereAtLeast(Tail(rs), c)

\* WHERE cursorExpr > ?
RECURSIVE Where(_, _)
Where(rs, c) ==
    IF rs = <<>> THEN <<>>
    ELSE IF rs[1][3] > c THEN <<rs[1]>> \o Where(Tail(rs), c)
         ELSE Where(Tail(rs), c)

\* Faulty variant: ORDER BY cursorExpr DESC.
RECURSIVE InsertOrderedDesc(_, _)
InsertOrderedDesc(r, sorted) ==
    IF sorted = <<>> THEN <<r>>
    ELSE IF r[3] > sorted[1][3] THEN <<r>> \o sorted
         ELSE <<sorted[1]>> \o InsertOrderedDesc(r, Tail(sorted))

\* ORDER BY cursorExpr: ascending, rows of equal watermark in rowid order.
RECURSIVE InsertOrdered(_, _)
InsertOrdered(r, sorted) ==
    IF sorted = <<>> THEN <<r>>
    ELSE IF r[3] < sorted[1][3] THEN <<r>> \o sorted
         ELSE <<sorted[1]>> \o InsertOrdered(r, Tail(sorted))

RECURSIVE OrderBy(_)
OrderBy(rs) ==
    IF rs = <<>> THEN <<>>
    ELSE InsertOrdered(Last(rs), OrderBy(SubSeq(rs, 1, Len(rs) - 1)))

\* LIMIT ?
Limit(rs, n) == SubSeq(rs, 1, IF Len(rs) < n THEN Len(rs) ELSE n)

\* The statement of buildSelectSql run with the parameters [cursor, limit].
SelectPage(t, c, n) == Limit(OrderBy(Where(TableRows(t), c)), n)

\* rows.map(row => mapped): the selected columns, without cursor_ts.
MapRow(row) == [id |-> row[1], ts |-> row[2]]

Ndjson(rs) == [i \in 1..Len(rs) |-> MapRow(rs[i])]

\* fs.appendFileSync(outFile, ndjson + '\n')
AppendFile(f, rs) == [exists |-> TRUE, lines |-> f.lines \o Ndjson(rs)]

\* Faulty variant: the output file of the last run is kept and appended to.
UnlinkKeeps(f) == f

\* if (fs.existsSync(outFile)) fs.unlinkSync(outFile)
Unlink(f) == IF f.exists THEN NoFile ELSE f

\* parseCell(rows[rows.length - 1][table.columns.length])
LastCursor(rs) == Last(rs)[3]

Table == TABLES[tableIdx]

\* The rows of table t a query with floor c has still to return.
Pending(t, c) == Cardinality({i \in 1..Len(source[t]) : source[t][i] > c})

RECURSIVE RowCount(_)
RowCount(ts) ==
    IF ts = {} THEN 0
    ELSE LET t == CHOOSE x \in ts : TRUE
         IN  Len(source[t]) + RowCount(ts \ {t})

\* ------------------------------------------------------------ cell values
\* JavaScript values a cell can hold, as records of one shape: null,
\* undefined, a string (its characters), a number, NaN, and an object
\* without a value property (the remote's {"type":"null"}).
JsNull == [t |-> "null", s |-> <<>>, n |-> 0]

JsUndefined == [t |-> "undefined", s |-> <<>>, n |-> 0]

JsNaN == [t |-> "NaN", s |-> <<>>, n |-> 0]

JsObject == [t |-> "object", s |-> <<>>, n |-> 0]

Str(s) == [t |-> "string", s |-> s, n |-> 0]

Num(n) == [t |-> "number", s |-> <<>>, n |-> n]

Chars == {"4", "2", "a", " "}

RECURSIVE StringsUpTo(_)
StringsUpTo(k) ==
    IF k = 0 THEN {<<>>}
    ELSE LET shorter == StringsUpTo(k - 1)
         IN  shorter \cup {Append(s, c) : s \in shorter, c \in Chars}

JsValues ==
    {JsNull, JsUndefined, Num(0), Num(42)} \cup {Str(s) : s \in StringsUpTo(MaxStrLen)}

\* A cell of a result row: the value itself, an object {type, value}
\* holding it, or an object with a type and no value.
Cells ==
    {[kind |-> k, v |-> v] : k \in {"bare", "wrapped"}, v \in JsValues}
        \cup {[kind |-> "typeOnly", v |-> JsObject]}

\* if (cell && typeof cell === 'object' && 'value' in cell) return cell.value;
\* return cell;
parseCell(cell) ==
    IF cell.kind = "wrapped" THEN cell.v
    ELSE IF cell.kind = "typeOnly" THEN JsObject
    ELSE cell.v

IsDigit(c) == c \in {"0", "1", "2", "3", "4", "5", "6", "7", "8", "9"}

DigitValue(c) ==
    CASE c = "0" -> 0 [] c = "1" -> 1 [] c = "2" -> 2 [] c = "3" -> 3
      [] c = "4" -> 4 [] c = "5" -> 5 [] c = "6" -> 6 [] c = "7" -> 7
      [] c = "8" -> 8 [] c = "9" -> 9

\* The string without its leading and trailing white space.
RECURSIVE Trim(_)
Trim(s) ==
    IF s = <<>> THEN s
    ELSE IF s[1] = " " THEN Trim(Tail(s))
    ELSE IF Last(s) = " " THEN Trim(SubSeq(s, 1, Len(s) - 1))
    ELSE s

RECURSIVE Decimal(_)
Decimal(s) ==
    IF s = <<>> THEN 0
    ELSE 10 * Decimal(SubSeq(s, 1, Len(s) - 1)) + DigitValue(Last(s))

\* Number(value): a string is trimmed, '' is 0, a digit string is its
\* decimal value and any other string NaN; an object is NaN.
Number(value) ==
    CASE value.t = "number" -> value
      [] value.t = "NaN" -> JsNaN
      [] value.t = "null" -> Num(0)
      [] value.t = "undefined" -> JsNaN
      [] value.t = "object" -> JsNaN
      [] value.t = "string" ->
            LET t == Trim(value.s)
            IN  IF t = <<>> THEN Num(0)
                ELSE IF \A i \in 1..Len(t) : IsDigit(t[i]) THEN Num(Decimal(t))
                ELSE JsNaN

\* Faulty variant: the cell is written as it came when it is not empty.
ensureNumberKeepsValue(value) ==
    IF value = JsNull \/ value = JsUndefined \/ value = Str(<<>>) THEN Num(0)
    ELSE value

\* ensureNumber(value, fallback = 0)
ensureNumber(value) ==
    IF value = JsNull \/ value = JsUndefined \/ value = Str(<<>>) THEN Num(0)
    ELSE LET num == Number(value)
         IN  IF num = JsNaN THEN Num(0) ELSE num

\* The part of the level_analytics descriptor the mapped row uses.
LEVEL_COLUMNS == <<"session_id", "level_number">>

LEVEL_NUMERIC == {"level_number"}

ColumnIndex(columns, key) == CHOOSE i \in 1..Len(columns) : columns[i] = key

\* The body of rows.map: every column gets its parsed cell, then every
\* numeric column that is a key of mapped is replaced by ensureNumber of it.
MapCells(columns, numericColumns, row) ==
    LET parsed == [key \in {columns[i] : i \in 1..Len(columns)} |->
                      parseCell(row[ColumnIndex(columns, key)])]
    IN  [key \in DOMAIN parsed |->
            IF key \in numericColumns THEN ensureNumber(parsed[key])
            ELSE parsed[key]]

\* ------------------------------------------------------------------- Init
InitState ==
    /\ source = [t \in TableNames |-> <<>>]
    /\ cursorFile = [exists |-> FALSE, parses |-> FALSE, json |-> EmptyMap]
    /\ files = [t \in TableNames |-> NoFile]
    /\ pc = "start"
    /\ BATCH_SIZE = 1
    /\ MAX_PAGES = 1
    /\ cursors = EmptyMap
    /\ tableIdx = 1
    /\ cursor = DEFAULT_CURSOR
    /\ wroteAny = FALSE
    /\ page = 0
    /\ rows = <<>>
    /\ cursorFileAtStart = cursorFile
    /\ filesAtStart = files
    /\ fetched = <<>>
    /\ fetches = 0
    /\ emitted = [t \in TableNames |-> {}]
    /\ saves = 0
    /\ zeroRow = {}
    /\ drained = {}
    /\ unchanged = TableNames
    /\ stable = {}

\* No row is in the mapping.
NoRow ==
    /\ rawRow = <<>>
    /\ mapped = <<>>

ParquetFiles == {"analytics_events.parquet", "level_analytics.parquet"}

\* setStatus(message, tone = 'info'); detail is the err.message put in it.
Status(text, kind) == [text |-> text, kind |-> kind, detail |-> ""]

Failure(text, detail) == [text |-> text, kind |-> "error", detail |-> detail]

IdleLoad == [pc |-> "idle", kind |-> "none", zip |-> {}, todo |-> {},
             viewsDone |-> FALSE, announced |-> FALSE]

\* The page when its script starts: let db; let conn; let isReady = false.
PageInit ==
    /\ initPc = "boot"
    /\ db = "none"
    /\ conn = FALSE
    /\ isReady = FALSE
    /\ status = Status("", "info")
    /\ registered = {}
    /\ views = 0
    /\ loads = [i \in 1..MaxLoads |-> IdleLoad]
    /\ running = 0
    /\ queries = 0

Init == InitState /\ recording = FALSE /\ NoRow /\ PageInit

InitRecording == InitState /\ recording = TRUE /\ NoRow /\ PageInit

\* The frame of exportTable is gone: the function returned or threw.
FrameDropped ==
    /\ cursor' = DEFAULT_CURSOR
    /\ wroteAny' = FALSE
    /\ page' = 0
    /\ rows' = <<>>
    /\ fetched' = <<>>
    /\ fetches' = 0

\* ---------------------------------------------------------------- actions
\* The remote application inserts a row.  The watermark expression is
\* non-decreasing over inserts.  The export reads a table only in the
\* tursoExecute calls of that table's exportTable, so an insert is placed
\* between two runs or, for the table being exported, before a fetch: an
\* insert at any other moment is read as if it had waited until then.
InsertRow(t, w) ==
    /\ pc = "start" \/ (pc = "loop" /\ t = Table)
    /\ RowCount(TableNames) < MaxRows
    /\ \A i \in 1..Len(source[t]) : source[t][i] <= w
    /\ source' = [source EXCEPT ![t] = Append(@, w)]
    /\ stable' = stable \ {t}
    /\ drained' = drained \ {t}
    /\ unchanged' = IF recording THEN unchanged \ {t} ELSE unchanged
    /\ UNCHANGED <<disk, pc, env, cursors, tableIdx, locals, cursorFileAtStart,
                   filesAtStart, perTable, outside, emitted, saves, zeroRow>>

\* The process starts: the configuration is read from the environment.
Start(b, m) ==
    /\ pc = "start"
    /\ BATCH_SIZE' = b
    /\ MAX_PAGES' = m
    /\ pc' = "main"
    /\ UNCHANGED <<remote, disk, cursors, tableIdx, locals, history>>

\* main: const cursors = loadCursors()
Main_loadCursors ==
    /\ pc = "main"
    /\ cursors' = loadCursors
    /\ tableIdx' = 1
    /\ pc' = "exportTable"
    /\ cursorFileAtStart' = cursorFile
    /\ filesAtStart' = files
    /\ saves' = 0
    /\ zeroRow' = {}
    /\ drained' = {}
    /\ unchanged' = TableNames
    /\ UNCHANGED <<remote, disk, env, locals, perTable, emitted, stable,
                   outside>>

\* exportTable, before the loop
ExportTable_begin ==
    /\ pc = "exportTable"
    /\ cursor' = CursorOrDefault(cursors, Table)
    /\ wroteAny' = FALSE
    /\ files' = [files EXCEPT ![Table] = Unlink(@)]
    /\ page' = 0
    /\ rows' = <<>>
    /\ fetched' = <<>>
    /\ fetches' = 0
    /\ pc' = "loop"
    /\ UNCHANGED <<remote, cursorFile, env, cursors, tableIdx, cursorFileAtStart,
                   filesAtStart, emitted, saves, zeroRow, drained, stable,
                   unchanged,
                   outside>>

\* Faulty variant: cursor = lastCursor, whatever the cell holds.
AdvanceCursorAlways(c, rs) == LastCursor(rs)

\* if (lastCursor) cursor = lastCursor
AdvanceCursor(c, rs) == IF ~Falsy(LastCursor(rs)) THEN LastCursor(rs) ELSE c

\* Faulty variant: the watermark is advanced as soon as the page arrives, before
\* the page is appended to the output file.
FetchThenAdvance ==
    /\ pc = "loop"
    /\ page < MAX_PAGES
    /\ rows' = SelectPage(Table, cursor, BATCH_SIZE)
    /\ cursor' = IF rows' = <<>> THEN cursor ELSE AdvanceCursor(cursor, rows')
    /\ fetched' = fetched \o rows'
    /\ fetches' = fetches + 1
    /\ pc' = "gotRows"
    /\ UNCHANGED <<remote, disk, env, cursors, tableIdx, wroteAny, page,
                   cursorFileAtStart, filesAtStart, emitted,
                   saves, zeroRow, drained, stable,
                   unchanged,
                   outside>>

\* for (...; page < MAX_PAGES; ...) rows = await tursoExecute(...)
Fetch ==
    /\ pc = "loop"
    /\ page < MAX_PAGES
    /\ rows' = SelectPage(Table, cursor, BATCH_SIZE)
    /\ fetched' = fetched \o rows'
    /\ fetches' = fetches + 1
    /\ pc' = "gotRows"
    /\ UNCHANGED <<remote, disk, env, cursors, tableIdx, cursor, wroteAny, page,
                   cursorFileAtStart, filesAtStart, emitted,
                   saves, zeroRow, drained, stable,
                   unchanged,
                   outside>>

\* Faulty variant: the failure path saves the map it has so far.
Main_catchSaves ==
    /\ pc' = "exit1"
    /\ stable' = {}
    /\ cursorFile' = [exists |-> TRUE, parses |-> TRUE, json |-> cursors]
    /\ saves' = saves + 1
    /\ FrameDropped
    /\ UNCHANGED <<remote, files, env, cursors, tableIdx, cursorFileAtStart,
                   filesAtStart, emitted, zeroRow, drained, unchanged,
                   outside>>

\* main().catch: console.error, process.exit(1)
Main_catch ==
    /\ pc' = "exit1"
    /\ stable' = {}
    /\ FrameDropped
    /\ UNCHANGED <<remote, disk, env, cursors, tableIdx, cursorFileAtStart,
                   filesAtStart, emitted, saves, zeroRow, drained, unchanged,
                   outside>>

\* tursoExecute throws: HTTP status not ok, or an error result
FetchThrows ==
    /\ pc = "loop"
    /\ page < MAX_PAGES
    /\ Main_catch

\* the loop condition fails: MAX_PAGES pages were fetched
LoopCeiling ==
    /\ pc = "loop"
    /\ page >= MAX_PAGES
    /\ pc' = "afterLoop"
    /\ UNCHANGED <<remote, disk, env, cursors, tableIdx, locals, history>>

\* if (!rows.length) break
BreakEmpty ==
    /\ pc = "gotRows"
    /\ Len(rows) = 0
    /\ pc' = "afterLoop"
    /\ zeroRow' = IF wroteAny THEN zeroRow ELSE zeroRow \cup {Table}
    /\ drained' = drained \cup {Table}
    /\ UNCHANGED <<remote, disk, env, cursors, tableIdx, locals,
                   cursorFileAtStart, filesAtStart, perTable, emitted, saves,
                   stable,
                   unchanged,
                   outside>>

\* fs.appendFileSync(outFile, ndjson + '\n'); wroteAny = true
AppendPage ==
    /\ pc = "gotRows"
    /\ Len(rows) > 0
    /\ files' = [files EXCEPT ![Table] = AppendFile(@, rows)]
    /\ wroteAny' = TRUE
    /\ emitted' = IF recording
                     THEN [emitted EXCEPT
                              ![Table] = @ \cup {rows[i][1] : i \in 1..Len(rows)}]
                     ELSE emitted
    /\ pc' = "advance"
    /\ UNCHANGED <<remote, cursorFile, env, cursors, tableIdx, cursor, page, rows,
                   cursorFileAtStart, filesAtStart, perTable, saves, zeroRow,
                   drained, stable,
                   unchanged,
                   outside>>

\* lastCursor ...; if (rows.length < BATCH_SIZE) break; page += 1
Advance ==
    /\ pc = "advance"
    /\ cursor' = AdvanceCursor(cursor, rows)
    /\ IF Len(rows) < BATCH_SIZE
          THEN /\ pc' = "afterLoop"
               /\ page' = page
               /\ drained' = drained \cup {Table}
          ELSE /\ pc' = "loop"
               /\ page' = page + 1
               /\ drained' = drained
    /\ UNCHANGED <<remote, disk, env, cursors, tableIdx, wroteAny, rows,
                   cursorFileAtStart, filesAtStart, perTable, emitted, saves,
                   zeroRow, stable,
                   unchanged,
                   outside>>

\* Faulty variant: cursors[cursorKey] = cursor, also when no page was written.
RecordCursorAlways(c, key, wrote, v) == SetCursor(c, key, v)

\* if (wroteAny) cursors[cursorKey] = cursor
RecordCursor(c, key, wrote, v) == IF wrote THEN SetCursor(c, key, v) ELSE c

\* fs.writeFileSync(CURSOR_PATH, JSON.stringify(cursors, null, 2))
saveCursors(c) ==
    /\ cursorFile' = [exists |-> TRUE, parses |-> TRUE, json |-> c]
    /\ saves' = saves + 1

\* Faulty variant: the map is saved after each table (a per-table commit).
ExportTable_returnSaves ==
    /\ pc = "afterLoop"
    /\ cursors' = RecordCursor(cursors, Table, wroteAny, cursor)
    /\ saveCursors(cursors')
    /\ FrameDropped
    /\ IF tableIdx < Len(TABLES)
          THEN /\ tableIdx' = tableIdx + 1
               /\ pc' = "exportTable"
          ELSE /\ tableIdx' = tableIdx
               /\ pc' = "save"
    /\ UNCHANGED <<remote, files, env, cursorFileAtStart, filesAtStart,
                   emitted, zeroRow, drained, stable, unchanged,
                   outside>>

\* exportTable returns; main takes the next table or goes on to save
ExportTable_return ==
    /\ pc = "afterLoop"
    /\ cursors' = RecordCursor(cursors, Table, wroteAny, cursor)
    /\ FrameDropped
    /\ IF tableIdx < Len(TABLES)
          THEN /\ tableIdx' = tableIdx + 1
               /\ pc' = "exportTable"
          ELSE /\ tableIdx' = tableIdx
               /\ pc' = "save"
    /\ UNCHANGED <<remote, disk, env, cursorFileAtStart, filesAtStart,
                   emitted, saves, zeroRow, drained, unchanged, stable,
                   outside>>

\* main: saveCursors(cursors); the process exits with code 0
Main_saveCursors ==
    /\ pc = "save"
    /\ saveCursors(cursors)
    /\ pc' = "exit0"
    /\ UNCHANGED <<remote, files, env, cursors, tableIdx, locals,
                   cursorFileAtStart, filesAtStart, perTable, emitted, zeroRow,
                   drained, stable,
                   unchanged,
                   outside>>

\* The process is gone; the operator or a scheduler runs the script again.
Rerun ==
    /\ pc \in {"exit0", "exit1"}
    /\ pc' = "start"
    /\ BATCH_SIZE' = 1
    /\ MAX_PAGES' = 1
    /\ cursors' = EmptyMap
    /\ tableIdx' = 1
    /\ cursor' = DEFAULT_CURSOR
    /\ wroteAny' = FALSE
    /\ page' = 0
    /\ rows' = <<>>
    /\ fetched' = <<>>
    /\ fetches' = 0
    /\ cursorFileAtStart' = cursorFile
    /\ filesAtStart' = files
    /\ saves' = 0
    /\ zeroRow' = {}
    /\ drained' = {}
    /\ unchanged' = TableNames
    /\ stable' = IF pc = "exit0" THEN drained ELSE {}
    /\ UNCHANGED <<remote, disk, outside, emitted>>

Next ==
    \/ \E t \in TableNames, w \in Watermarks : InsertRow(t, w)
    \/ \E b \in 1..MaxBatchSize, m \in 1..MaxPagesCfg : Start(b, m)
    \/ Main_loadCursors
    \/ ExportTable_begin
    \/ Fetch
    \/ FetchThrows
    \/ LoopCeiling
    \/ BreakEmpty
    \/ AppendPage
    \/ Advance
    \/ ExportTable_return
    \/ Main_saveCursors
    \/ Rerun

Spec == Init /\ [][Next]_vars

\* The same program with the history across runs recorded.
SpecRecording == InitRecording /\ [][Next]_vars

\* exportTable as a function of the start watermark and the rows of the
\* table as they are when the function returns: the loop from page p with
\* watermark c, out the rows appended so far.  The result is the final
\* watermark and the rows of the output file.  (A row inserted while the
\* table is paged sorts after every row already fetched, so the pages are
\* those the final rows give.)
RECURSIVE ExportLoop(_, _, _, _, _, _)
ExportLoop(t, c, p, out, b, m) ==
    IF p >= m THEN [cursor |-> c, out |-> out]
    ELSE LET rs == SelectPage(t, c, b)
         IN  IF rs = <<>> THEN [cursor |-> c, out |-> out]
             ELSE IF Len(rs) < b
                     THEN [cursor |-> AdvanceCursor(c, rs), out |-> out \o rs]
                     ELSE ExportLoop(t, AdvanceCursor(c, rs), p + 1, out \o rs, b, m)

\* What exportTable leaves for table t when it starts from the map c0 and
\* the rows do not change: the output file and the map.
ExportedFile(t, c0, b, m) ==
    LET r == ExportLoop(t, CursorOrDefault(c0, t), 0, <<>>, b, m)
    IN  IF r.out = <<>> THEN NoFile
        ELSE [exists |-> TRUE, lines |-> Ndjson(r.out)]

ExportedMap(t, c0, b, m) ==
    LET r == ExportLoop(t, CursorOrDefault(c0, t), 0, <<>>, b, m)
    IN  RecordCursor(c0, t, r.out # <<>>, r.cursor)

\* ------------------------------------------------- a remote taken as it is
\* tursoExecute returns the rows of the response whatever they are: the
\* program does not check that they satisfy the WHERE clause it sent.
\* Here the remote returns an empty page, a full page or a page one row
\* short of BATCH_SIZE, the cursor
\* cell of its rows a watermark or a null or empty cell.  Two runs are
\* followed: a first one of one page of one row per table, which leaves a
\* checkpoint file or none, and a second one of any configuration.
UncheckedPages(n) ==
    {[i \in 1..k |-> <<i, 1, c>>] : k \in {0, n - 1, n}, c \in {-1} \cup Watermarks}

FetchUnchecked ==
    /\ pc = "loop"
    /\ page < MAX_PAGES
    /\ rows' \in UncheckedPages(BATCH_SIZE)
    /\ fetched' = fetched \o rows'
    /\ fetches' = fetches + 1
    /\ pc' = "gotRows"
    /\ UNCHANGED <<remote, disk, env, cursors, tableIdx, cursor, wroteAny, page,
                   cursorFileAtStart, filesAtStart, emitted,
                   saves, zeroRow, drained, stable,
                   unchanged,
                   outside>>

FirstSmallRun ==
    /\ pc = "exit0"
    /\ ~cursorFileAtStart.exists
    /\ BATCH_SIZE = 1
    /\ MAX_PAGES = 1

NextUnchecked ==
    \/ \E b \in 1..MaxBatchSize, m \in 1..MaxPagesCfg : Start(b, m)
    \/ Main_loadCursors
    \/ ExportTable_begin
    \/ FetchUnchecked
    \/ FetchThrows
    \/ LoopCeiling
    \/ BreakEmpty
    \/ AppendPage
    \/ Advance
    \/ ExportTable_return
    \/ Main_saveCursors
    \/ FirstSmallRun /\ Rerun

SpecUnchecked == Init /\ [][NextUnchecked]_vars

\* ------------------------------------------------- a lost checkpoint file
\* Between two runs the checkpoint file is damaged so that JSON.parse
\* rejects it (json keeps what the file held before).  The file is missing
\* in the first run already.  The remote rows are those inserted before the
\* first run that left a file.
CheckpointDamaged ==
    /\ pc = "start"
    /\ cursorFile.exists
    /\ cursorFile.parses
    /\ cursorFile' = [cursorFile EXCEPT !.parses = FALSE]
    /\ cursorFileAtStart' = cursorFile'
    /\ UNCHANGED <<remote, files, pc, env, cursors, tableIdx, locals,
                   filesAtStart, perTable, saves, zeroRow, drained, stable,
                   emitted, unchanged, outside>>

\* No run has left a file yet.
NothingOnDisk ==
    /\ pc = "start"
    /\ ~cursorFile.exists
    /\ \A t \in TableNames : ~files[t].exists

NextLost ==
    \/ \E t \in TableNames, w \in Watermarks : NothingOnDisk /\ InsertRow(t, w)
    \/ \E b \in 1..MaxBatchSize, m \in 1..MaxPagesCfg : Start(b, m)
    \/ Main_loadCursors
    \/ ExportTable_begin
    \/ Fetch
    \/ FetchThrows
    \/ LoopCeiling
    \/ BreakEmpty
    \/ AppendPage
    \/ Advance
    \/ ExportTable_return
    \/ Main_saveCursors
    \/ Rerun
    \/ CheckpointDamaged

SpecLost == Init /\ [][NextLost]_vars

\* ------------------------------------------------------ the row mapping
\* One row of level_analytics goes through the mapping of exportTable.
\* The cells are drawn from Cells; nothing else of the program moves.
InitCoerce ==
    /\ InitState
    /\ recording = FALSE
    /\ rawRow \in [1..Len(LEVEL_COLUMNS) -> Cells]
    /\ mapped = <<>>
    /\ PageInit

MapOneRow ==
    /\ mapped = <<>>
    /\ mapped' = <<MapCells(LEVEL_COLUMNS, LEVEL_NUMERIC, rawRow)>>
    /\ UNCHANGED <<exporter, recording, rawRow, browser>>

NextCoerce == MapOneRow

SpecCoerce == InitCoerce /\ [][NextCoerce]_vars

\* ---------------------------------------------------------- the query page
\* The page script: initDuckDB started at the end of the module, and the
\* handlers of the Load button, the file input, the Run button and the
\* Clear button, each an async function that gives way at every await.
\* A snapshot load is loads[i]: where its handler is (pc), which handler it
\* is (kind), the parquet files of its zip, those still to register, and
\* whether it created the views and set the loaded status.

\* Handlers run once the module has reached its first await.
Listening == initPc # "boot"

\* Load i is the next one to start.
NextLoad(i) ==
    /\ loads[i].pc = "idle"
    /\ i > 1 => loads[i - 1].pc # "idle"

Zips == {{}} \cup {z \in SUBSET ParquetFiles : "analytics_events.parquet" \in z}

\* initDuckDB: setStatus('Starting DuckDB engine...'); await resolveBundle()
InitDuckDB_start ==
    /\ initPc = "boot"
    /\ initPc' = "resolving"
    /\ status' = Status("Starting DuckDB engine...", "info")
    /\ UNCHANGED <<exporter, recording, coercion, db, conn, isReady, registered,
                   views, loads, running, queries>>

\* Faulty variant: isReady is set as soon as the database object exists.
InitDuckDB_readyEarly ==
    /\ initPc = "resolving"
    /\ initPc' = "instantiating"
    /\ db' = "created"
    /\ isReady' = TRUE
    /\ UNCHANGED <<exporter, recording, coercion, conn, status,
                   registered, views, loads, running, queries>>

\* new Worker(...); db = new duckdb.AsyncDuckDB(...); await db.instantiate(...)
InitDuckDB_bundle ==
    /\ initPc = "resolving"
    /\ initPc' = "instantiating"
    /\ db' = "created"
    /\ UNCHANGED <<exporter, recording, coercion, conn, isReady, status,
                   registered, views, loads, running, queries>>

\* db.instantiate resolved; conn = await db.connect()
InitDuckDB_instantiated ==
    /\ initPc = "instantiating"
    /\ initPc' = "connecting"
    /\ db' = "instantiated"
    /\ UNCHANGED <<exporter, recording, coercion, conn, isReady, status,
                   registered, views, loads, running, queries>>

\* db.connect resolved: conn = ...; isReady = true; setStatus('DuckDB ready...')
InitDuckDB_connected ==
    /\ initPc = "connecting"
    /\ initPc' = "ready"
    /\ conn' = TRUE
    /\ isReady' = TRUE
    /\ status' = Status("DuckDB ready. Load a snapshot.", "info")
    /\ UNCHANGED <<exporter, recording, coercion, db, registered, views, loads,
                   running, queries>>

\* catch (err): isReady = false; setStatus(`DuckDB init failed: ...`, 'error')
InitDuckDB_catch ==
    /\ initPc \in {"resolving", "instantiating", "connecting"}
    /\ initPc' = "failed"
    /\ isReady' = FALSE
    /\ status' = Failure("DuckDB init failed: ", "err.message")
    /\ UNCHANGED <<exporter, recording, coercion, db, conn, registered, views,
                   loads, running, queries>>

FailText(kind) == IF kind = "release" THEN "Load failed: " ELSE "Upload failed: "

\* The load button is clicked.  ownerRepo: both inputs are filled in; zip:
\* the parquet files of the zip the download will give.
LoadButton_click(i, ownerRepo, zip) ==
    /\ Listening
    /\ NextLoad(i)
    /\ IF ~isReady
          THEN /\ status' = Status("DuckDB not ready yet. Please wait a moment.", "error")
               /\ loads' = [loads EXCEPT ![i].pc = "returned", ![i].kind = "release"]
          ELSE IF ~ownerRepo
          THEN /\ status' = Status("Enter GitHub owner and repo name.", "error")
               /\ loads' = [loads EXCEPT ![i].pc = "returned", ![i].kind = "release"]
          ELSE /\ status' = Status("Downloading snapshot... (public release)", "info")
               /\ loads' = [loads EXCEPT ![i].pc = "fetching", ![i].kind = "release",
                                         ![i].zip = zip]
    /\ UNCHANGED <<exporter, recording, coercion, initPc, db, conn, isReady,
                   registered, views, running, queries>>

\* A file is chosen in the file input (or the choice is cancelled: no file).
ZipInput_change(i, hasFile, zip) ==
    /\ Listening
    /\ NextLoad(i)
    /\ IF ~isReady
          THEN /\ status' = Status("DuckDB not ready yet. Please wait a moment.", "error")
               /\ loads' = [loads EXCEPT ![i].pc = "returned", ![i].kind = "upload"]
          ELSE IF ~hasFile
          THEN /\ status' = status
               /\ loads' = [loads EXCEPT ![i].pc = "returned", ![i].kind = "upload"]
          ELSE /\ status' = Status("Unpacking uploaded snapshot...", "info")
               /\ loads' = [loads EXCEPT ![i].pc = "fetching", ![i].kind = "upload",
                                         ![i].zip = zip]
    /\ UNCHANGED <<exporter, recording, coercion, initPc, db, conn, isReady,
                   registered, views, running, queries>>

\* catch (err) of a handler: setStatus(`Load failed: ...` or `Upload failed: ...`)
Load_catch(i, message) ==
    /\ status' = Failure(FailText(loads[i].kind), message)
    /\ loads' = [loads EXCEPT ![i].pc = "failed"]

\* The buffer is there (fetchLatestReleaseZip or file.arrayBuffer resolved);
\* the release handler sets 'Unpacking snapshot...'; loadZip is called:
\* it throws if isReady is false, else awaits JSZip.loadAsync(buffer).
Load_buffer(i) ==
    /\ loads[i].pc = "fetching"
    /\ IF ~isReady
          THEN Load_catch(i, "DuckDB is not initialized")
          ELSE /\ loads' = [loads EXCEPT ![i].pc = "unzipping"]
               /\ status' = IF loads[i].kind = "release"
                               THEN Status("Unpacking snapshot...", "info")
                               ELSE status
    /\ UNCHANGED <<exporter, recording, coercion, initPc, db, conn, isReady,
                   registered, views, running, queries>>

\* JSZip.loadAsync resolved; registerParquetFiles: no parquet file throws,
\* else the loop over the files starts.
Load_unzipped(i) ==
    /\ loads[i].pc = "unzipping"
    /\ IF loads[i].zip = {}
          THEN Load_catch(i, "No parquet files found in zip.")
          ELSE /\ loads' = [loads EXCEPT ![i].pc = "registering",
                                         ![i].todo = loads[i].zip]
               /\ status' = status
    /\ UNCHANGED <<exporter, recording, coercion, initPc, db, conn, isReady,
                   registered, views, running, queries>>

\* Faulty variant: the views are created after the first file is registered.
Load_registerFirst(i, f) ==
    /\ loads[i].pc = "registering"
    /\ f \in loads[i].todo
    /\ registered' = registered \cup {f}
    /\ loads' = [loads EXCEPT ![i].todo = {}, ![i].pc = "views"]
    /\ UNCHANGED <<exporter, recording, coercion, initPc, db, conn, isReady,
                   status, views, running, queries>>

\* await file.async(...); await db.registerFileBuffer(...) for one file;
\* after the last one createViews sends conn.query(viewSql).
Load_register(i, f) ==
    /\ loads[i].pc = "registering"
    /\ f \in loads[i].todo
    /\ registered' = registered \cup {f}
    /\ loads' = [loads EXCEPT ![i].todo = @ \ {f},
                              ![i].pc = IF loads[i].todo = {f} THEN "views"
                                        ELSE "registering"]
    /\ UNCHANGED <<exporter, recording, coercion, initPc, db, conn, isReady,
                   status, views, running, queries>>

\* conn.query(viewSql) resolved; setStatus('Snapshot loaded. Ready to query.')
Load_views(i) ==
    /\ loads[i].pc = "views"
    /\ views' = views + 1
    /\ loads' = [loads EXCEPT ![i].pc = "done", ![i].viewsDone = TRUE,
                              ![i].announced = TRUE]
    /\ status' = Status("Snapshot loaded. Ready to query.", "info")
    /\ UNCHANGED <<exporter, recording, coercion, initPc, db, conn, isReady,
                   registered, running, queries>>

\* An await of the load rejects: the download, the read of the file, the
\* unzip, a registration or the view query.
Load_throws(i) ==
    /\ loads[i].pc \in {"fetching", "unzipping", "registering", "views"}
    /\ Load_catch(i, "err.message")
    /\ UNCHANGED <<exporter, recording, coercion, initPc, db, conn, isReady,
                   registered, views, running, queries>>

\* runQuery, up to its await: the Run button is clicked.
RunQuery_click(hasSql) ==
    /\ Listening
    /\ IF ~conn
          THEN /\ status' = Status("Load a snapshot before running queries.", "error")
               /\ UNCHANGED <<running, queries>>
          ELSE IF ~hasSql
          THEN /\ status' = Status("Type a SQL query first.", "error")
               /\ UNCHANGED <<running, queries>>
          ELSE /\ queries < MaxQueries
               /\ status' = Status("Running query...", "info")
               /\ queries' = queries + 1
               /\ running' = running + 1
    /\ UNCHANGED <<exporter, recording, coercion, initPc, db, conn, isReady,
                   registered, views, loads>>

\* conn.query(sql) resolved or rejected
RunQuery_result(ok) ==
    /\ running > 0
    /\ running' = running - 1
    /\ status' = IF ok THEN Status("Query complete. Rows: n", "info")
                 ELSE Status("Query error. Check output.", "error")
    /\ UNCHANGED <<exporter, recording, coercion, initPc, db, conn, isReady,
                   registered, views, loads, queries>>

\* The Clear button is clicked.
ClearButton_click ==
    /\ Listening
    /\ status' = Status("Output cleared.", "info")
    /\ UNCHANGED <<exporter, recording, coercion, initPc, db, conn, isReady,
                   registered, views, loads, running, queries>>

NextPage ==
    \/ InitDuckDB_start
    \/ InitDuckDB_bundle
    \/ InitDuckDB_instantiated
    \/ InitDuckDB_connected
    \/ InitDuckDB_catch
    \/ \E i \in 1..MaxLoads, ownerRepo \in BOOLEAN, zip \in Zips :
          LoadButton_click(i, ownerRepo, zip)
    \/ \E i \in 1..MaxLoads, hasFile \in BOOLEAN, zip \in Zips :
          ZipInput_change(i, hasFile, zip)
    \/ \E i \in 1..MaxLoads : Load_buffer(i)
    \/ \E i \in 1..MaxLoads : Load_unzipped(i)
    \/ \E i \in 1..MaxLoads, f \in ParquetFiles : Load_register(i, f)
    \/ \E i \in 1..MaxLoads : Load_views(i)
    \/ \E i \in 1..MaxLoads : Load_throws(i)
    \/ \E hasSql \in BOOLEAN : RunQuery_click(hasSql)
    \/ \E ok \in BOOLEAN : RunQuery_result(ok)
    \/ ClearButton_click

SpecPage == Init /\ [][NextPage]_vars

\* ------------------------------------------------------------- properties
\* The entry of table t in two checkpoint maps is the same: absent in both,
\* or present in both with the same watermark.
SameEntry(a, b, t) ==
    /\ (t \in DOMAIN a) = (t \in DOMAIN b)
    /\ t \in DOMAIN a => a[t] = b[t]

InExport == pc \in {"loop", "gotRows", "advance", "afterLoop"}

\* C2: a run aborted by a throwing tursoExecute leaves the checkpoint file
\* as it was before the run, whatever tables were exported before the failure.
C2_AbortKeepsCheckpoint == pc = "exit1" => cursorFile = cursorFileAtStart

\* C2 witness: the fetch of the second table failed after the first table
\* wrote rows and put a new watermark in the in-memory map.
C2_Witness ==
    /\ pc = "exit1"
    /\ tableIdx = 2
    /\ files[TABLES[1]].exists
    /\ cursors # cursorFileAtStart.json
    /\ cursorFileAtStart.exists

\* C4: in every step, a table's watermark in the checkpoint file stays in
\* the file and does not decrease.
C4_ForwardOnly ==
    [][\A t \in TableNames :
          (cursorFile.exists /\ t \in DOMAIN cursorFile.json)
              => /\ cursorFile'.exists
                 /\ t \in DOMAIN cursorFile'.json
                 /\ cursorFile'.json[t] >= cursorFile.json[t]]_vars

\* C4 witness: a successful run raised a watermark that was already in the file.
C4_Witness ==
    /\ pc = "exit0"
    /\ \E t \in DOMAIN cursorFileAtStart.json :
          cursorFile.json[t] > cursorFileAtStart.json[t]

\* C10: the checkpoint file is written at most once in a run, by main after
\* the last table: once when the run ends with exit code 0, never before
\* that and never in a run that aborts.
C10_SingleBatchCommit ==
    /\ saves <= 1
    /\ pc = "exit0" => saves = 1 /\ tableIdx = Len(TABLES)
    /\ pc # "exit0" => saves = 0 /\ cursorFile = cursorFileAtStart

\* C10 witness: a run ended with one save that changed the file, two tables
\* having been exported.
C10_Witness ==
    /\ pc = "exit0"
    /\ saves = 1
    /\ cursorFile.json # cursorFileAtStart.json
    /\ DOMAIN cursorFile.json = TableNames

\* The map the run in progress loaded.
loadCursorsAtStart ==
    ParsedOrEmpty(cursorFileAtStart)

\* The watermark the checkpoint file gives table t: the floor of the first
\* page of a run that loads this file.
Persisted(t) == CursorOrDefault(loadCursors, t)

HasLine(f, w) == \E i \in 1..Len(f.lines) : f.lines[i].ts = w

\* C5: while a run exports a table, no fetched page and no line of the
\* table's output file has a watermark at or below the table's watermark in
\* the checkpoint file; and a table with no row above that watermark is
\* finished after one fetch, which returned no rows.
C5_NoReemission ==
    InExport =>
        /\ \A i \in 1..Len(rows) : rows[i][3] > Persisted(Table)
        /\ \A i \in 1..Len(files[Table].lines) :
              files[Table].lines[i].ts > Persisted(Table)
        /\ (pc = "afterLoop" /\ Pending(Table, Persisted(Table)) = 0)
              => fetches = 1 /\ fetched = <<>> /\ ~files[Table].exists

\* C5 witness: a table whose rows were all checkpointed by an earlier run,
\* one of them at the checkpointed watermark itself, ended after one empty fetch.
C5_Witness ==
    /\ pc = "afterLoop"
    /\ cursorFile.exists
    /\ Table \in DOMAIN cursorFile.json
    /\ \E i \in 1..Len(source[Table]) : source[Table][i] = cursorFile.json[Table]
    /\ fetches = 1
    /\ fetched = <<>>

\* C7: when the loop of exportTable has ended, the table's output file
\* holds exactly the rows of the pages fetched in this run, in fetch order,
\* and does not exist if no row was fetched.
C7_FullRewrite ==
    pc = "afterLoop" =>
        files[Table] = IF fetched = <<>> THEN NoFile
                       ELSE [exists |-> TRUE, lines |-> Ndjson(fetched)]

\* C7 witness: the table had an output file before the run and the run
\* fetched no row for it.
C7_Witness ==
    /\ pc = "afterLoop"
    /\ filesAtStart[Table].exists
    /\ fetched = <<>>

\* C8: a table whose first page was empty keeps its entry of the checkpoint
\* map, a watermark or none: in the in-memory map for the rest of the run,
\* and in the file saved at the end of the run.
C8_ZeroRowKeepsCheckpoint ==
    \A t \in zeroRow :
        /\ SameEntry(cursors, cursorFileAtStart.json, t)
        /\ pc = "exit0" => SameEntry(cursorFile.json, cursorFileAtStart.json, t)

\* C8 witness: the run saved a watermark for one table and left the other
\* table, which returned no rows, without an entry.
C8_Witness ==
    /\ pc = "exit0"
    /\ \E t \in zeroRow : t \notin DOMAIN cursorFile.json
    /\ cursorFile.json # EmptyMap

\* C9: a watermark is recorded only for rows already in the output file.
\* The in-memory cursor is the start watermark or the watermark of a line
\* of the file; when the next page is about to be fetched every page
\* fetched so far is in the file and the cursor is that of the last row
\* written; an entry of the in-memory map or of the checkpoint file that
\* this run changed is the watermark of a line of that table's file.
C9_CommitAfterWrite ==
    /\ InExport =>
          \/ cursor = CursorOrDefault(cursors, Table)
          \/ HasLine(files[Table], cursor)
    /\ pc = "loop" =>
          /\ files[Table].lines = Ndjson(fetched)
          /\ fetched # <<>> => cursor = Last(fetched)[3]
    /\ \A t \in DOMAIN cursors :
          \/ (t \in DOMAIN cursorFileAtStart.json /\ cursors[t] = cursorFileAtStart.json[t])
          \/ HasLine(files[t], cursors[t])
    /\ \A t \in DOMAIN cursorFile.json :
          \/ (t \in DOMAIN cursorFileAtStart.json
                 /\ cursorFile.json[t] = cursorFileAtStart.json[t])
          \/ HasLine(files[t], cursorFile.json[t])

\* C9 witness: a full page was appended and the cursor advanced to its last
\* row, and the next page is about to be fetched.
C9_Witness ==
    /\ pc = "loop"
    /\ page = 1
    /\ page < MAX_PAGES
    /\ cursor # CursorOrDefault(cursors, Table)
    /\ HasLine(files[Table], cursor)

\* C1 as stated: when a run ends successfully after a successful run, with
\* the table's rows unchanged since that run read them, the table's output
\* file is the one the earlier run left.  (Checked for the tables the
\* earlier run exported to the end, without stopping at MAX_PAGES.)
C1_ByteIdenticalRerun ==
    pc = "exit0" => \A t \in stable : files[t] = filesAtStart[t]

\* C1 amended: in such a second run a table the first run exported to the
\* end (its last page empty or shorter than BATCH_SIZE) returns no rows:
\* its output file does not exist after the run, so it equals the first
\* run's file only if that run wrote none, and its entry of the
\* checkpoint file is unchanged.
C1_RerunFetchesNothing ==
    pc = "exit0" =>
        \A t \in stable :
            /\ t \in zeroRow
            /\ ~files[t].exists
            /\ SameEntry(cursorFile.json, cursorFileAtStart.json, t)

\* C1 witness: the first run wrote an output file for the table and the
\* second run, which found nothing new, removed it.
C1_Witness ==
    /\ pc = "exit0"
    /\ \E t \in stable : filesAtStart[t].exists /\ ~files[t].exists

\* C3 as stated (read under SpecRecording, which keeps emitted and
\* unchanged), for a table whose rows did not change during the run:
\* after a successful run, every row that was pending when the run began
\* (its watermark above the watermark the run loaded for the table) and
\* whose watermark is at or below the table's watermark in the saved
\* checkpoint file was appended to the table's output file.
C3_CheckpointComplete ==
    pc = "exit0" =>
        \A t \in unchanged \cap DOMAIN cursorFile.json :
            \A i \in 1..Len(source[t]) :
                (/\ source[t][i] > CursorOrDefault(cursorFileAtStart.json, t)
                 /\ source[t][i] <= cursorFile.json[t])
                    => i \in emitted[t]

\* C6 as stated (read under SpecRecording, which keeps unchanged), for a
\* table whose rows did not change during the run: at most MAX_PAGES fetches; with N x BATCH_SIZE pending
\* rows, N fetches with rows and then an empty one; otherwise the loop ends
\* on the first short page.  (The page counts are asked only where
\* MAX_PAGES leaves room for them.)
C6_ExactPageCount ==
    (pc = "afterLoop" /\ Table \in unchanged) =>
        LET pending == Pending(Table, Persisted(Table))
            n == pending \div BATCH_SIZE
        IN  /\ fetches <= MAX_PAGES
            /\ (pending % BATCH_SIZE = 0 /\ n + 1 <= MAX_PAGES)
                  => fetches = n + 1 /\ rows = <<>>
            /\ (pending % BATCH_SIZE # 0 /\ n + 1 <= MAX_PAGES)
                  => fetches = n + 1 /\ Len(rows) = pending % BATCH_SIZE

\* The decimal value of a string of digits, by the place of each digit.
RECURSIVE PlaceSum(_, _)
PlaceSum(s, i) ==
    IF i > Len(s) THEN 0
    ELSE DigitValue(s[i]) * 10^(Len(s) - i) + PlaceSum(s, i + 1)

PlaceValue(s) == PlaceSum(s, 1)

DigitString(v) ==
    /\ v.t = "string"
    /\ v.s # <<>>
    /\ \A i \in 1..Len(v.s) : IsDigit(v.s[i])

\* A string Number() does not read as a number: after trimming, something
\* is left and one character of it is not a digit.
NonNumericString(v) ==
    /\ v.t = "string"
    /\ \E i \in 1..Len(v.s) : v.s[i] # " " /\ ~IsDigit(v.s[i])

\* C11: in the record written for a row, a numeric column holds 0 when its
\* cell is null, undefined, '' or a string that is not a number, and the
\* number (a number, not a string) when the cell is a digit string or a
\* number; a column that is not numeric holds its cell as it was parsed.
C11_NumericCoercion ==
    mapped # <<>> =>
        LET cell == parseCell(rawRow[2])
            out == mapped[1]["level_number"]
        IN  /\ DOMAIN mapped[1] = {"session_id", "level_number"}
            /\ out.t = "number"
            /\ cell \in {JsNull, JsUndefined, Str(<<>>)} => out = Num(0)
            /\ NonNumericString(cell) => out = Num(0)
            /\ DigitString(cell) => out = Num(PlaceValue(cell.s))
            /\ cell = Str(<<"4", "2">>) => out = Num(42)
            /\ cell.t = "number" => out = cell
            /\ mapped[1]["session_id"] = parseCell(rawRow[1])

\* C11 witness: the remote sent level_number as the string "42" and
\* session_id as a string of digits too; the record holds the number 42
\* for the first and the string for the second.
C11_Witness ==
    /\ mapped # <<>>
    /\ rawRow[1] = [kind |-> "wrapped", v |-> Str(<<"4", "2">>)]
    /\ rawRow[2] = [kind |-> "wrapped", v |-> Str(<<"4", "2">>)]
    /\ mapped[1]["level_number"] = Num(42)
    /\ mapped[1]["session_id"] = Str(<<"4", "2">>)

\* C12: a run that aborts leaves the checkpoint file the next run starts
\* from as it was, and a run that ends successfully, the rows unchanged
\* while it runs, leaves for every table the output file and the entry of
\* the checkpoint file that the export from the checkpoint it loaded
\* gives: nothing a run aborted before it left on disk is in them.
C12_SafeRerun ==
    /\ pc = "exit1" => cursorFile = cursorFileAtStart
    /\ pc = "exit0" =>
          /\ cursorFile.exists
          /\ \A t \in TableNames :
                /\ files[t] = ExportedFile(t, loadCursorsAtStart, BATCH_SIZE, MAX_PAGES)
                /\ SameEntry(cursorFile.json,
                             ExportedMap(t, loadCursorsAtStart, BATCH_SIZE, MAX_PAGES), t)

\* C12 witness: the successful run started with an output file of a table
\* that has no entry in the checkpoint file, which only an aborted run
\* leaves, and replaced it by a longer one.
C12_Witness ==
    /\ pc = "exit0"
    /\ \E t \in TableNames :
          /\ filesAtStart[t].exists
          /\ t \notin DOMAIN cursorFileAtStart.json
          /\ Len(files[t].lines) > Len(filesAtStart[t].lines)

\* The ids of the rows of the table being exported that were pending when
\* exportTable began and are in no page fetched so far.
NotFetched ==
    {i \in 1..Len(source[Table]) : source[Table][i] > CursorOrDefault(cursors, Table)}
        \ {fetched[j][1] : j \in 1..Len(fetched)}

\* C13 as stated: when the loop of exportTable ends at the MAX_PAGES
\* ceiling with pending rows left, the function goes on to return (no
\* error) with the watermark of the last row of the last page written as
\* the value it records in the map, and the rows not fetched are exactly
\* the rows a query from that watermark selects, which the following run
\* pages through.
C13_CeilingResumes ==
    (pc = "afterLoop" /\ page >= MAX_PAGES /\ NotFetched # {}) =>
        /\ wroteAny
        /\ cursor = LastCursor(fetched)
        /\ files[Table].lines = Ndjson(fetched)
        /\ NotFetched = {i \in 1..Len(source[Table]) : source[Table][i] > cursor}

\* The places in fetched of the last row of each page: every page before
\* the last one is full.
PageEnds == {k \in 1..Len(fetched) : k % BATCH_SIZE = 0 \/ k = Len(fetched)}

\* The cursor cell of the last row of the latest page whose cell is not
\* null or empty, or the watermark exportTable started from.
LastSeenCursor ==
    LET seen == {k \in PageEnds : ~Falsy(fetched[k][3])}
    IN  IF seen = {} THEN CursorOrDefault(cursors, Table)
        ELSE fetched[CHOOSE k \in seen : \A j \in seen : j <= k][3]

C15_OutputOrdering ==
    InExport =>
        LET lines == files[Table].lines
            start == CursorOrDefault(cursors, Table)
        IN  /\ pc # "gotRows" => lines = Ndjson(fetched)
            /\ pc = "gotRows" =>
                  lines = Ndjson(SubSeq(fetched, 1, Len(fetched) - Len(rows)))
            /\ \A i, j \in 1..Len(lines) : i < j => lines[i].ts <= lines[j].ts
            /\ \A k \in PageEnds : fetched[k][3] > start
            /\ \A j, k \in PageEnds : j < k => fetched[j][3] < fetched[k][3]
            /\ pc = "loop" =>
                  cursor = IF fetched = <<>> THEN start ELSE Last(fetched)[3]

\* C15 witness: two pages were fetched and appended, the second with a
\* watermark above the start watermark, and the file holds lines of two
\* different watermarks.
C15_Witness ==
    /\ pc = "afterLoop"
    /\ fetches >= 2
    /\ Len(fetched) > BATCH_SIZE
    /\ files[Table].lines[1].ts < Last(files[Table].lines).ts

\* C16 (read under SpecLost, where a checkpoint file can be damaged): in a run that found no checkpoint file or one it could not
\* parse, every table is paged from DEFAULT_CURSOR, the in-memory map has
\* entries only for tables whose output file this run wrote, and the run
\* that ends successfully saves a readable map with exactly those entries.
C16_ReadFailureStartsEmpty ==
    (pc \notin {"start", "main"}
        /\ (~cursorFileAtStart.exists \/ ~cursorFileAtStart.parses)) =>
        /\ (pc = "loop" /\ fetches = 0) => cursor = DEFAULT_CURSOR
        /\ \A t \in DOMAIN cursors : files[t].exists
        /\ pc = "exit0" =>
              /\ cursorFile.exists
              /\ cursorFile.parses
              /\ DOMAIN cursorFile.json = {t \in TableNames : files[t].exists}

\* C16 witness: the file the run found was damaged; the run ended
\* successfully, one table restarted from DEFAULT_CURSOR and saved with a
\* watermark below the one the damaged file had held, the other table
\* without rows and without an entry.
C16_Witness ==
    /\ pc = "exit0"
    /\ cursorFileAtStart.exists
    /\ ~cursorFileAtStart.parses
    /\ \E t \in DOMAIN cursorFileAtStart.json :
          /\ t \in DOMAIN cursorFile.json
          /\ cursorFile.json[t] < cursorFileAtStart.json[t]
    /\ \E t \in TableNames : t \notin DOMAIN cursorFile.json

\* C17: no step of the export of a table changes the output file or the
\* entry of the in-memory map of another table; and when the loop of a
\* table has ended, its output file and its watermark are those the export
\* gives from the table's own entry in the checkpoint the run loaded and
\* the table's own rows, whichever tables were exported before it.
C17_TableIndependence ==
    [][/\ (InExport \/ pc = "exportTable") =>
             \A t \in TableNames \ {Table} :
                 /\ files'[t] = files[t]
                 /\ SameEntry(cursors', cursors, t)
       /\ pc = "afterLoop" =>
             /\ files[Table] = ExportedFile(Table, loadCursorsAtStart, BATCH_SIZE, MAX_PAGES)
             /\ SameEntry(cursors',
                          ExportedMap(Table, loadCursorsAtStart, BATCH_SIZE, MAX_PAGES),
                          Table)]_vars

\* C17 witness: the second table has written rows and is about to record
\* its watermark, the first table having an output file and an entry that
\* this run changed.
C17_Witness ==
    /\ pc = "afterLoop"
    /\ tableIdx = 2
    /\ wroteAny
    /\ files[TABLES[1]].exists
    /\ TABLES[1] \in DOMAIN cursors
    /\ ~SameEntry(cursors, loadCursorsAtStart, TABLES[1])

\* A snapshot load has ended with the views created and the status set.
SnapshotLoaded == \E i \in 1..MaxLoads : loads[i].pc = "done"

\* C18 as stated: runQuery has sent a query on the connection only if a
\* snapshot load succeeded before; a click on Run before any successful
\* load sends none.
C18_QueryNeedsSnapshot == queries > 0 => SnapshotLoaded

\* C19: isReady is true only when the database is instantiated and the
\* connection open, and false after a failed start; while it is false no
\* file is registered and no view exists, no step registers a file or
\* creates a view, and a click on Load or a file chosen in the input only
\* sets the error status 'DuckDB not ready yet. Please wait a moment.' and
\* returns.
C19_NothingBeforeReady ==
    [][/\ isReady => (db = "instantiated" /\ conn /\ initPc = "ready")
       /\ initPc = "failed" => ~isReady
       /\ ~isReady =>
             /\ registered = {} /\ views = 0
             /\ registered' = registered /\ views' = views
             /\ \A i \in 1..MaxLoads :
                   (loads[i].pc = "idle" /\ loads'[i].pc # "idle") =>
                       /\ loads'[i].pc = "returned"
                       /\ status' = Status("DuckDB not ready yet. Please wait a moment.",
                                           "error")]_vars

\* C19 witness: the start of the engine failed and a load asked for
\* afterwards was turned away with the error status.
C19_Witness ==
    /\ initPc = "failed"
    /\ ~isReady
    /\ \E i \in 1..MaxLoads : loads[i].pc = "returned"
    /\ status = Status("DuckDB not ready yet. Please wait a moment.", "error")
    /\ registered = {}

\* C20: a load has set 'Snapshot loaded. Ready to query.' only if its zip
\* has a parquet file, every parquet file of it is registered and the load
\* created the views; that status is on the page only if some load has set
\* it; a load that failed has not set it, and the step in which it fails
\* sets the error status 'Load failed: ...' or 'Upload failed: ...'.
C20_LoadedMeansRegistered ==
    [][/\ \A i \in 1..MaxLoads :
             /\ loads[i].announced =>
                   /\ loads[i].zip # {}
                   /\ loads[i].zip \subseteq registered
                   /\ loads[i].todo = {}
                   /\ loads[i].viewsDone
                   /\ views > 0
             /\ loads[i].pc = "failed" => ~loads[i].announced
             /\ (loads[i].pc # "failed" /\ loads'[i].pc = "failed") =>
                   /\ status'.kind = "error"
                   /\ status'.text = FailText(loads[i].kind)
       /\ status.text = "Snapshot loaded. Ready to query." =>
             \E i \in 1..MaxLoads : loads[i].announced]_vars

\* C20 witness: an uploaded zip without parquet files: the load failed with
\* the error status of that cause and never set the loaded status.
C20_Witness ==
    \E i \in 1..MaxLoads :
        /\ loads[i].pc = "failed"
        /\ loads[i].kind = "upload"
        /\ loads[i].zip = {}
        /\ ~loads[i].announced
        /\ status = Failure("Upload failed: ", "No parquet files found in zip.")

=============================================================================
